---- MODULE Spec2Model ----
(***************************************************************************)
(* Model of the Excel MCP server (src/excel_mcp/server.py) and of its      *)
(* document extractor (src/excel_mcp/document_extractor.py).               *)
(*                                                                         *)
(* Every tool handler of server.py is an operation of the machine.  The    *)
(* handlers whose steps matter for interleavings (write_data_to_excel,     *)
(* extract_tables_from_document) advance one file-system / network step    *)
(* per action; the other handlers run as one action.  Strings are          *)
(* sequences of tokens, so that prefix tests and f-string formatting are   *)
(* computed and not assumed.  uuid.uuid4() is a counter that never repeats *)
(* (the chance of a collision of two random UUIDs is not modelled).        *)
(***************************************************************************)
EXTENDS Integers, Sequences, FiniteSets, TLC

\* ------------------------------------------------------------------ bounds
NInv == 2       \* invocations the transport holds at one time
MaxCalls == 1   \* invocations the sequential transport serves in a run

Inv == 1..NInv
\* largest sheet and largest batch a caller reads in batches
MaxRow == 4
MaxBatch == 3
\* most cells of a range and most sheets of a workbook a handler is given
NCells == 12
NSheets == 3
\* requests one server process is followed through
MaxServed == 2
\* tables in a document, and rows in a table
NTables == 3

\* ------------------------------------------------------- strings and paths
Range(s) == {s[k] : k \in 1..Len(s)}

StartsWith(s, p) == Len(s) >= Len(p) /\ SubSeq(s, 1, Len(p)) = p

HttpPrefix == <<"h", "t", "t", "p", ":", "/", "/">>
HttpsPrefix == <<"h", "t", "t", "p", "s", ":", "/", "/">>

\* filepath.startswith("http://") or filepath.startswith("https://")
UrlAccepted_NoSlashes(u) == StartsWith(u, <<"h", "t", "t", "p">>)
UrlAccepted(u) == StartsWith(u, HttpPrefix) \/ StartsWith(u, HttpsPrefix)

\* The URLs and non-URLs a caller may pass where a handler expects a URL.
Urls ==
    { HttpPrefix \o <<"host", "/", "book", ".xlsx">>,
      HttpsPrefix \o <<"host", "/", "book", ".xlsx">>,
      <<"f", "t", "p", ":", "/", "/", "host", "/", "book", ".xlsx">>,
      <<"h", "t", "t", "p", ":", "host", "/", "book", ".xlsx">>,
      <<"H", "T", "T", "P", ":", "/", "/", "host", "/", "book", ".xlsx">>,
      <<"book", ".xlsx">> }

None == <<>>    \* Python's None where a token sequence is expected (falsy)
NoSheet == ""   \* Python's None where a sheet name is expected (falsy)

\* File names a caller may pass as filepath: one relative, one absolute.
Filenames == { <<"book", ".xlsx">>, <<"/", "data", "book", ".xlsx">> }
Cwd == <<"/", "cwd">>
DefaultFilesPath == <<".", "excel_files">>

isabs(p) == Len(p) > 0 /\ p[1] = "/"

\* os.path.join(a, p) for a relative p: a, the separator, p
join(a, p) == a \o <<"/">> \o p

\* os.path.abspath(p) for a relative p: joined to the working directory
abspath(p) == join(Cwd, p)

\* a resolution that never looks at the base directory
get_excel_path_in_NoBase(base, filename) ==
    IF isabs(filename) THEN filename ELSE abspath(filename)

\* get_excel_path, given the value of the module variable EXCEL_FILES_PATH
get_excel_path_in(base, filename) ==
    IF isabs(filename) THEN filename
    ELSE IF base = None THEN abspath(filename)
    ELSE join(base, filename)

ResolvedPaths ==
    { get_excel_path_in(b, f) : b \in {None, DefaultFilesPath}, f \in Filenames }

\* --------------------------------------------------------------- exceptions
DomainErrors ==
    { "ValidationError", "WorkbookError", "SheetError", "DataError",
      "FormattingError", "CalculationError", "PivotError", "ChartError" }
\* requests' exception, and the exception download_file raises in its place
FetchErrors == { "RequestException", "DownloadError" }
\* exceptions that are neither domain errors nor fetch errors
OtherErrors == { "KeyError" }
Exceptions == DomainErrors \cup FetchErrors \cup OtherErrors

\* str(e) of the exception a delegate raises
Msgs == { <<"sheet", "Summary", "already", "exists">> }

NoExc == [k |-> "ok", msg |-> <<>>]
Raise(k, m) == [k |-> k, msg |-> m]
Outcomes == {NoExc} \cup { Raise(k, m) : k \in Exceptions, m \in Msgs }

\* ------------------------------------------------------------------ results
\* What an invocation hands to the transport: a returned string, or a fault.
NoResult == [how |-> "none", text |-> <<>>, exc |-> "ok"]
Returned(text) == [how |-> "return", text |-> text, exc |-> "ok"]
Raised(e) == [how |-> "raise", text |-> e.msg, exc |-> e.k]

\* f"Error: {str(e)}"
ErrorText(msg) == <<"Error:">> \o msg

IsErrorString(r) == r.how = "return" /\ Len(r.text) > 0 /\ r.text[1] = "Error:"

\* ---------------------------------------------------------------- workbooks
\* A workbook file: its sheets in order and its cells <<sheet, row, col, value>>.
NoFile == [exists |-> FALSE, sheets |-> <<>>, cells |-> {}]
\* what create_workbook_impl writes: a workbook with the one sheet "Sheet1"
EmptyBook == [exists |-> TRUE, sheets |-> <<"Sheet1">>, cells |-> {}]
\* a workbook that already holds data
OldBook ==
    [exists |-> TRUE, sheets |-> <<"Sheet1">>,
     cells |-> {<<"Sheet1", 1, 1, 99>>, <<"Sheet1", 5, 5, 98>>}]

\* ------------------------------------------------------------------- state
VARIABLES
    pc,         \* [Inv -> where the invocation stands in its handler]
    req,        \* [Inv -> the request: tool name and arguments]
    call,       \* [Inv -> number of the call the slot serves; seeds its UUIDs]
    loc,        \* [Inv -> local variables of a handler that runs in steps]
    result,     \* [Inv -> what the handler returned or raised]
    log,        \* [Inv -> what the handler did, in order]
    created,    \* [Inv -> names of the temp files the invocation wrote]
    cond,       \* [Inv -> the condition the invocation met]
    fault,      \* [Inv -> the exception raised inside the handler, if any]
    tmp,        \* the temp directory: records [name, data]
    files,      \* the workbook files: resolved path -> workbook
    remote,     \* files put on the remote host
    served,     \* calls received so far
    EXCEL_FILES_PATH,   \* server.py's module variable
    max_row,    \* ws.max_row of the sheet a batch URL serves
    client      \* the caller that reads a sheet batch by batch

invVars == <<pc, req, call, loc, result, log, created, cond, fault>>
fsVars == <<tmp, files, remote>>
vars == <<pc, req, call, loc, result, log, created, cond, fault,
          tmp, files, remote, served, EXCEL_FILES_PATH, max_row, client>>

get_excel_path(filename) == get_excel_path_in(EXCEL_FILES_PATH, filename)

NoReq == [tool |-> "none"]
NoLoc ==
    [full_path |-> None, wb |-> NoFile, message |-> <<>>, temp_file |-> None,
     tables |-> 0, output_file |-> None, uploaded |-> None, uuids |-> 0]

\* no caller reads in batches
NoClient == [state |-> "off"]

\* run_stdio leaves EXCEL_FILES_PATH None; run_sse and run_streamable_http set
\* it before the server serves.  The workbook files exist or not.
InitServer ==
    /\ pc = [i \in Inv |-> "idle"]
    /\ req = [i \in Inv |-> NoReq]
    /\ call = [i \in Inv |-> 0]
    /\ loc = [i \in Inv |-> NoLoc]
    /\ result = [i \in Inv |-> NoResult]
    /\ log = [i \in Inv |-> <<>>]
    /\ created = [i \in Inv |-> {}]
    /\ cond = [i \in Inv |-> "none"]
    /\ fault = [i \in Inv |-> NoExc]
    /\ tmp = {}
    /\ \E b \in {NoFile, OldBook} : files = [p \in ResolvedPaths |-> b]
    /\ remote = {}
    /\ served = 0
    /\ EXCEL_FILES_PATH \in {None, DefaultFilesPath}

Init == InitServer /\ max_row = 1 /\ client = NoClient

\* ------------------------------------------------------------- temp files
TmpNames(t) == {f.name : f \in t}
\* open(name, 'wb') / shutil.copy(..., name) / wb.save(name): create or replace
WriteTmp(t, name, data) ==
    {f \in t : f.name # name} \cup {[name |-> name, data |-> data]}
\* os.remove(name) guarded by os.path.exists(name)
RemoveTmp(t, name) == {f \in t : f.name # name}
TmpData(t, name) == (CHOOSE f \in t : f.name = name).data

\* the k-th uuid.uuid4() of invocation i
Uuid(i, k) == <<ToString(call[i]), ToString(k)>>

Bytes(i) == [kind |-> "download", wb |-> NoFile, by |-> i]

\* -------------------------------------------------- requests and dispatch
\* The handlers that resolve the path, call one delegate and map its outcome.
SimpleTools ==
    { "validate_formula_syntax", "format_range", "create_workbook",
      "create_worksheet", "create_chart", "create_pivot_table", "create_table",
      "copy_worksheet", "delete_worksheet", "rename_worksheet", "merge_cells",
      "unmerge_cells", "get_merged_cells", "copy_range", "delete_range" }

\* every handler catching ValidationError alone
Catches_ValidationOnly(tool) == {"ValidationError"}

\* the exception classes each handler's first except clause names
Catches(tool) ==
    CASE tool \in {"apply_formula", "validate_formula_syntax"} ->
            {"ValidationError", "CalculationError"}
      [] tool = "format_range" -> {"ValidationError", "FormattingError"}
      [] tool = "create_workbook" -> {"WorkbookError"}
      [] tool = "create_worksheet" -> {"ValidationError", "WorkbookError"}
      [] tool = "create_chart" -> {"ValidationError", "ChartError"}
      [] tool = "create_pivot_table" -> {"ValidationError", "PivotError"}
      [] tool = "create_table" -> {"DataError"}
      [] tool \in {"copy_worksheet", "delete_worksheet", "rename_worksheet",
                   "merge_cells", "unmerge_cells", "get_merged_cells",
                   "copy_range", "delete_range"} ->
            {"ValidationError", "SheetError"}
      [] tool = "validate_excel_range" -> {"ValidationError"}
      [] tool = "write_data_to_excel" -> {"ValidationError", "DataError"}
      [] tool = "get_data_validation_info" -> {}
      [] OTHER -> {}

\* the delegate each of these handlers calls
DelegateOf(tool) ==
    CASE tool = "validate_formula_syntax" -> "validate_formula_impl"
      [] tool = "format_range" -> "format_range_func"
      [] tool = "create_workbook" -> "create_workbook_impl"
      [] tool = "create_worksheet" -> "create_worksheet_impl"
      [] tool = "create_chart" -> "create_chart_impl"
      [] tool = "create_pivot_table" -> "create_pivot_table_impl"
      [] tool = "create_table" -> "create_table_impl"
      [] tool = "copy_worksheet" -> "copy_sheet"
      [] tool = "delete_worksheet" -> "delete_sheet"
      [] tool = "rename_worksheet" -> "rename_sheet"
      [] tool = "merge_cells" -> "merge_range"
      [] tool = "unmerge_cells" -> "unmerge_range"
      [] tool = "get_merged_cells" -> "get_merged_ranges"
      [] tool = "copy_range" -> "copy_range_operation"
      [] tool = "delete_range" -> "delete_range_operation"
      [] tool = "validate_excel_range" -> "validate_range_impl"
      [] OTHER -> "none"

\* result["message"] of a delegate that succeeded
DelegateMessage == <<"done">>

\* the string a handler returns when its delegate succeeded
SuccessText(tool, full_path) ==
    CASE tool = "create_workbook" ->
            <<"Created workbook at">> \o full_path \o <<"(empty sheet)">>
      [] tool = "create_worksheet" -> DelegateMessage \o <<"(empty sheet)">>
      [] tool = "format_range" -> <<"Range formatted successfully">>
      [] tool = "get_merged_cells" -> <<"[merged ranges]">>
      [] OTHER -> DelegateMessage

\* a handler whose only except clause logs and raises
Except_LogAndRaise(tool, e) == [res |-> Raised(e), ev |-> <<"logger.error">>]

\* except (<Catches>) as e: return f"Error: {str(e)}"
\* except Exception as e: logger.error(...); raise
Except(tool, e) ==
    IF e.k \in Catches(tool)
    THEN [res |-> Returned(ErrorText(e.msg)), ev |-> <<>>]
    ELSE [res |-> Raised(e), ev |-> <<"logger.error">>]

Done(i, r, c, f, ev) ==
    /\ pc' = [pc EXCEPT ![i] = "done"]
    /\ result' = [result EXCEPT ![i] = r]
    /\ cond' = [cond EXCEPT ![i] = c]
    /\ fault' = [fault EXCEPT ![i] = f]
    /\ log' = [log EXCEPT ![i] = @ \o ev]

\* One of the handlers of SimpleTools, from entry to return or raise.
SimpleCall(i) ==
    /\ pc[i] = "recv"
    /\ req[i].tool \in SimpleTools
    /\ \E out \in Outcomes :
          LET tool == req[i].tool
              full_path == get_excel_path(req[i].filepath)
              called == <<"get_excel_path", DelegateOf(tool)>>
          IN  IF out = NoExc
              THEN Done(i, Returned(SuccessText(tool, full_path)), "ok", out, called)
              ELSE Done(i, Except(tool, out).res, "exception", out,
                        called \o Except(tool, out).ev)
    /\ UNCHANGED <<req, call, loc, created, tmp, files, remote, served,
                   EXCEL_FILES_PATH, max_row, client>>

\* ----------------------------------------------------- validate_excel_range
A1 == <<"A", "1">>
B2 == <<"B", "2">>
ColIndex(c) == CASE c = "A" -> 1 [] c = "B" -> 2 [] c = "C" -> 3 [] OTHER -> 0
RowIndex(r) == CASE r = "1" -> 1 [] r = "2" -> 2 [] r = "3" -> 3 [] OTHER -> 0

\* range_str = start_cell if not end_cell else f"{start_cell}:{end_cell}"
RangeStr(start_cell, end_cell) ==
    IF end_cell = None THEN start_cell ELSE start_cell \o <<":">> \o end_cell

\* The handler hands range_str to validate_range_impl whatever it holds; the
\* delegate returns or raises.
validate_excel_range(i) ==
    /\ pc[i] = "recv"
    /\ req[i].tool = "validate_excel_range"
    /\ LET range_str == RangeStr(req[i].start_cell, req[i].end_cell)
           called == <<"get_excel_path", "validate_range_impl">>
       IN  \E out \in Outcomes :
              IF out = NoExc
              THEN Done(i, Returned(DelegateMessage), "ok", out, called)
              ELSE Done(i, Except("validate_excel_range", out).res,
                        "exception",
                        out, called \o Except("validate_excel_range", out).ev)
    /\ UNCHANGED <<req, call, loc, created, tmp, files, remote, served,
                   EXCEL_FILES_PATH, max_row, client>>

\* ------------------------------------------------------------ apply_formula
\* validate_formula_impl may return a dict with the key "error"
ErrDict == [k |-> "errordict", msg |-> <<"Invalid formula syntax">>]

\* a handler that writes the formula first and validates it afterwards
apply_formula_ApplyFirst(i) ==
    /\ pc[i] = "recv"
    /\ req[i].tool = "apply_formula"
    /\ Done(i, Returned(ErrorText(ErrDict.msg)), "invalid_formula", NoExc,
            <<"get_excel_path", "apply_formula_impl", "validate_formula_impl">>)
    /\ UNCHANGED <<req, call, loc, created, tmp, files, remote, served,
                   EXCEL_FILES_PATH, max_row, client>>

\* apply_formula, from entry to return or raise
apply_formula(i) ==
    /\ pc[i] = "recv"
    /\ req[i].tool = "apply_formula"
    /\ \E validation \in Outcomes \cup {ErrDict}, applied \in Outcomes :
          LET v == <<"get_excel_path", "validate_formula_impl">>
              a == v \o <<"apply_formula_impl">>
          IN  CASE validation = ErrDict ->
                     Done(i, Returned(ErrorText(validation.msg)), "invalid_formula",
                          NoExc, v)
                [] validation \notin {ErrDict, NoExc} ->
                     Done(i, Except("apply_formula", validation).res, "exception",
                          validation, v \o Except("apply_formula", validation).ev)
                [] validation = NoExc /\ applied # NoExc ->
                     Done(i, Except("apply_formula", applied).res, "exception",
                          applied, a \o Except("apply_formula", applied).ev)
                [] OTHER ->
                     Done(i, Returned(DelegateMessage), "ok", NoExc, a)
    /\ UNCHANGED <<req, call, loc, created, tmp, files, remote, served,
                   EXCEL_FILES_PATH, max_row, client>>

\* ------------------------------------------------- get_data_validation_info
FileNotFound == Raise("FileNotFoundError", <<"No such file or directory">>)

SheetNotFoundText(sheet_name) == <<"Error:", "Sheet", sheet_name, "not found">>

InSeq(x, s) == x \in Range(s)

get_data_validation_info(i) ==
    /\ pc[i] = "recv"
    /\ req[i].tool = "get_data_validation_info"
    /\ LET full_path == get_excel_path(req[i].filepath)
           wb == files[full_path]
           tool == "get_data_validation_info"
           opened == <<"get_excel_path", "load_workbook">>
           called == opened \o <<"get_all_validation_ranges">>
       IN  IF ~wb.exists
           THEN Done(i, Except(tool, FileNotFound).res, "exception", FileNotFound,
                     opened \o Except(tool, FileNotFound).ev)
           ELSE IF ~InSeq(req[i].sheet_name, wb.sheets)
           THEN Done(i, Returned(SheetNotFoundText(req[i].sheet_name)),
                     "sheet_not_found", NoExc, opened)
           ELSE \E out \in Outcomes, rules \in BOOLEAN :
                   IF out # NoExc
                   THEN Done(i, Except(tool, out).res, "exception", out,
                             called \o Except(tool, out).ev)
                   ELSE IF ~rules
                   THEN Done(i, Returned(<<"No data validation rules found in this worksheet">>),
                             "ok", out, called)
                   ELSE Done(i, Returned(<<"{json}">>), "ok", out, called)
    /\ UNCHANGED <<req, call, loc, created, tmp, files, remote, served,
                   EXCEL_FILES_PATH, max_row, client>>

\* ------------------------------------------------------ the URL read tools
UrlTools ==
    { "read_data_from_excel", "preview_excel_data", "get_workbook_metadata",
      "read_excel_data_in_batches", "get_excel_file_info" }

\* what the HTTP peer does: requests.get raises, answers another status than
\* 200, breaks off while the body streams, or sends an empty body, bytes that
\* are no workbook, or a workbook
NetOutcomes ==
    { "request_exception", "status_404", "stream_exception", "empty",
      "not_excel", "excel" }
NetError == Raise("RequestException", <<"connection timed out">>)

\* wb.sheetnames of the downloaded workbook
RemoteSheets == <<"Sheet1", "Data">>
SheetArgs == {NoSheet, "Data", "Missing"}

\* the handlers that look the sheet up themselves
SheetLookupTools == {"preview_excel_data", "read_excel_data_in_batches"}
\* the handlers that pass the downloaded file to a delegate
UrlDelegateOf(tool) ==
    CASE tool = "read_data_from_excel" -> "read_excel_range_with_metadata"
      [] tool = "get_workbook_metadata" -> "get_workbook_info"
      [] OTHER -> "none"

\* max_rows <= 0 or max_cells <= 0; batch_size <= 0, start_row <= 0
ParamsRejected(r) ==
    CASE r.tool = "read_data_from_excel" -> r.max_rows <= 0 \/ r.max_cells <= 0
      [] r.tool = "read_excel_data_in_batches" -> r.batch_size <= 0 \/ r.start_row <= 0
      [] OTHER -> FALSE

\* except requests.exceptions.RequestException as e: return "Error: ..."
\* (get_workbook_metadata: except WorkbookError as e: return "Error: ...")
\* except Exception as e: logger.error(...); return f"Error: {e}"
UrlExcept(tool, e) ==
    IF e.k = "RequestException"
    THEN [res |-> Returned(<<"Error:", "network request failed -">> \o e.msg),
          ev |-> <<>>]
    ELSE IF tool = "get_workbook_metadata" /\ e.k = "WorkbookError"
    THEN [res |-> Returned(ErrorText(e.msg)), ev |-> <<>>]
    ELSE [res |-> Returned(ErrorText(e.msg)), ev |-> <<"logger.error">>]

\* finally: if temp_file and os.path.exists(temp_file): os.remove(temp_file)
Finally(t, temp_file) == RemoveTmp(t, temp_file)

Outcome(res, c, f, ev, wrote) ==
    [res |-> res, cond |-> c, fault |-> f, ev |-> ev, wrote |-> wrote]

\* What follows the download in each handler, the file being a workbook.
UrlTail(r, out, has_data, ev) ==
    LET sheet == IF r.sheet_name = NoSheet THEN RemoteSheets[1] ELSE r.sheet_name
        d == UrlDelegateOf(r.tool)
    IN  IF r.tool \in SheetLookupTools /\ ~InSeq(sheet, RemoteSheets)
        THEN Outcome(Returned(SheetNotFoundText(sheet)), "sheet_not_found", NoExc,
                     ev, TRUE)
        ELSE IF d # "none" /\ out # NoExc
        THEN Outcome(UrlExcept(r.tool, out).res, "exception", out,
                     ev \o <<d>> \o UrlExcept(r.tool, out).ev, TRUE)
        ELSE IF r.tool = "read_data_from_excel" /\ ~has_data
        THEN Outcome(Returned(<<"No data found in specified range">>), "no_data",
                     NoExc, ev \o <<d>>, TRUE)
        ELSE Outcome(Returned(<<"{json}">>), "ok", NoExc,
                     IF d = "none" THEN ev ELSE ev \o <<d>>, TRUE)

\* One URL read handler from entry to return, the finally clause excluded.
UrlRun(r, net, out, has_data) ==
    LET checked == IF r.tool \in {"read_data_from_excel", "read_excel_data_in_batches"}
                   THEN <<"url_check", "param_check">> ELSE <<"url_check">>
        got == checked \o <<"requests.get">>
        opened == got \o <<"open_temp">>
    IN  IF ~UrlAccepted(r.url)
        THEN Outcome(Returned(<<"Error:", "only http/https URLs are supported">>),
                     "bad_url", NoExc, <<"url_check">>, FALSE)
        ELSE IF ParamsRejected(r)
        THEN Outcome(Returned(<<"Error:", "parameter must be greater than 0">>),
                     "bad_param", NoExc, checked, FALSE)
        ELSE CASE net = "request_exception" ->
                    Outcome(UrlExcept(r.tool, NetError).res, "net_error", NetError,
                            got, FALSE)
               [] net = "status_404" ->
                    Outcome(Returned(<<"Error:", "cannot download, HTTP status:", "404">>),
                            "http_status", NoExc, got, FALSE)
               [] net = "stream_exception" ->
                    Outcome(UrlExcept(r.tool, NetError).res, "net_error", NetError,
                            opened, TRUE)
               [] net = "empty" ->
                    Outcome(Returned(<<"Error:", "downloaded file is empty">>),
                            "empty_body", NoExc, opened, TRUE)
               [] net = "not_excel" ->
                    Outcome(Returned(<<"Error:", "not a valid Excel file">>),
                            "not_excel", NoExc, opened \o <<"load_workbook">>, TRUE)
               [] OTHER -> UrlTail(r, out, has_data, opened \o <<"load_workbook">>)

\* temp_file = f"/tmp/{uuid.uuid4()}.xlsx"
UrlTempName(i) == Uuid(i, 1) \o <<".xlsx">>

UrlCall(i) ==
    /\ pc[i] = "recv"
    /\ req[i].tool \in UrlTools
    /\ \E o \in { UrlRun(req[i], net, out, has_data) :
                    net \in NetOutcomes, out \in Outcomes, has_data \in BOOLEAN } :
          LET temp_file == UrlTempName(i)
          IN  /\ Done(i, o.res, o.cond, o.fault,
                      IF o.wrote THEN o.ev \o <<"finally">> ELSE o.ev)
              /\ created' = [created EXCEPT ![i] = IF o.wrote THEN {temp_file} ELSE {}]
              /\ tmp' = IF o.wrote
                        THEN Finally(WriteTmp(tmp, temp_file, Bytes(i)), temp_file)
                        ELSE tmp
    /\ UNCHANGED <<req, call, loc, files, remote, served, EXCEL_FILES_PATH, max_row, client>>

\* ------------------------------------------------------ write_data_to_excel
\* a 3-row, 2-column payload; n tells the payloads of two callers apart
Payload(n) ==
    << <<10 * n + 1, 10 * n + 2>>, <<10 * n + 3, 10 * n + 4>>,
       <<10 * n + 5, 10 * n + 6>> >>

\* the cells a payload occupies when written from start_cell
Block(sheet, data, start_cell) ==
    UNION { { <<sheet, RowIndex(start_cell[2]) + r - 1,
                ColIndex(start_cell[1]) + c - 1, data[r][c]>> :
              c \in 1..Len(data[r]) } : r \in 1..Len(data) }

ValidCell(cell) == Len(cell) = 2 /\ ColIndex(cell[1]) > 0 /\ RowIndex(cell[2]) > 0

\* a fresh Workbook() holding only the new sheet, in place of the loaded one
CreateSheet_InFreshBook(wb, name) ==
    [exists |-> TRUE, sheets |-> <<name>>, cells |-> {}]

\* wb.create_sheet(name)
CreateSheet(wb, name) == [wb EXCEPT !.sheets = Append(@, name)]

\* excel_mcp.data.write_data: the exception it raises for its arguments, if any
WriteDataError(data, start_cell) ==
    IF data = None THEN Raise("DataError", <<"No data provided to write">>)
    ELSE IF ~ValidCell(start_cell)
    THEN Raise("DataError", <<"Invalid start cell reference">>)
    ELSE NoExc

\* excel_mcp.data.write_data: the workbook it saves.  It writes to the named
\* sheet, or to the active (first) sheet when no name is given.
WriteDataBook(wb, sheet_name, data, start_cell) ==
    LET sheet == IF sheet_name = NoSheet THEN wb.sheets[1] ELSE sheet_name
        had == IF InSeq(sheet, wb.sheets) THEN wb ELSE CreateSheet(wb, sheet)
        new == Block(sheet, data, start_cell)
        over(x) == \E y \in new : y[1] = x[1] /\ y[2] = x[2] /\ y[3] = x[3]
    IN  [had EXCEPT !.cells = {x \in @ : ~over(x)} \cup new]

WriteDataMessage(wb, sheet_name) ==
    <<"Data written to", IF sheet_name = NoSheet THEN wb.sheets[1] ELSE sheet_name>>

\* the host the docstring of write_data_to_excel names for upload and link
DocumentedHost == "8.154.74.79"
\* the host the code connects to and puts in the link
UploadHost == "8.156.74.79"
\* f"http://8.156.74.79:8001/{processed_filename}"
DownloadUrl(filename) == <<"http://", UploadHost, ":8001/">> \o filename

\* processed_filename = f"uploaded_{uuid.uuid4().hex}.xlsx"
UploadedName(i) == <<"uploaded_">> \o Uuid(i, 1) \o <<".xlsx">>

Step(i, to) == pc' = [pc EXCEPT ![i] = to]

\* a handler that declares EXCEL_FILES_PATH global and sets it when it is None
WriteResolve_SetsBase(i) ==
    /\ pc[i] = "recv"
    /\ req[i].tool = "write_data_to_excel"
    /\ LET full_path == get_excel_path(req[i].filepath)
       IN  /\ Step(i, "w_load")
           /\ loc' = [loc EXCEPT ![i].full_path = full_path]
           /\ files' = [files EXCEPT ![full_path] =
                           IF @.exists THEN @ ELSE EmptyBook]
           /\ log' = [log EXCEPT ![i] = @ \o <<"get_excel_path">>]
           /\ EXCEL_FILES_PATH' = DefaultFilesPath
           /\ UNCHANGED <<result, cond, fault>>
    /\ UNCHANGED <<req, call, created, tmp, remote, served, max_row, client>>

\* full_path = get_excel_path(filepath); create the workbook if it is missing
WriteResolve(i) ==
    /\ pc[i] = "recv"
    /\ req[i].tool = "write_data_to_excel"
    /\ LET full_path == get_excel_path(req[i].filepath)
       IN  IF files[full_path].exists
           THEN /\ Step(i, "w_load")
                /\ loc' = [loc EXCEPT ![i].full_path = full_path]
                /\ log' = [log EXCEPT ![i] = @ \o <<"get_excel_path">>]
                /\ UNCHANGED <<files, result, cond, fault>>
           ELSE \E out \in {NoExc, Raise("WorkbookError", <<"cannot create workbook">>)} :
                   IF out = NoExc
                   THEN /\ Step(i, "w_load")
                        /\ loc' = [loc EXCEPT ![i].full_path = full_path]
                        /\ files' = [files EXCEPT ![full_path] = EmptyBook]
                        /\ log' = [log EXCEPT ![i] =
                                      @ \o <<"get_excel_path", "create_workbook_impl">>]
                        /\ UNCHANGED <<result, cond, fault>>
                   ELSE /\ Done(i, Except("write_data_to_excel", out).res, "exception", out,
                                <<"get_excel_path", "create_workbook_impl">>
                                   \o Except("write_data_to_excel", out).ev)
                        /\ UNCHANGED <<loc, files>>
    /\ UNCHANGED <<req, call, created, tmp, remote, served, EXCEL_FILES_PATH, max_row, client>>

\* WriteLoad behind a lock on the path: it waits while another invocation is
\* between its own load and its write of the same file
WriteLoad_Locked(i) ==
    /\ pc[i] = "w_load"
    /\ \A j \in Inv \ {i} :
          ~(pc[j] \in {"w_sheet", "w_write"} /\ loc[j].full_path = loc[i].full_path)
    /\ Step(i, "w_sheet")
    /\ loc' = [loc EXCEPT ![i].wb = files[loc[i].full_path]]
    /\ log' = [log EXCEPT ![i] = @ \o <<"load_workbook">>]
    /\ UNCHANGED <<req, call, result, created, cond, fault, tmp, files, remote,
                   served, EXCEL_FILES_PATH, max_row, client>>

\* wb = load_workbook(full_path)
WriteLoad(i) ==
    /\ pc[i] = "w_load"
    /\ Step(i, "w_sheet")
    /\ loc' = [loc EXCEPT ![i].wb = files[loc[i].full_path]]
    /\ log' = [log EXCEPT ![i] = @ \o <<"load_workbook">>]
    /\ UNCHANGED <<req, call, result, created, cond, fault, tmp, files, remote,
                   served, EXCEL_FILES_PATH, max_row, client>>

\* if sheet_name and sheet_name not in wb.sheetnames:
\*     wb.create_sheet(sheet_name); wb.save(full_path); wb.close()
WriteSheet(i) ==
    /\ pc[i] = "w_sheet"
    /\ Step(i, "w_write")
    /\ IF req[i].sheet_name # NoSheet /\ ~InSeq(req[i].sheet_name, loc[i].wb.sheets)
       THEN /\ files' = [files EXCEPT ![loc[i].full_path] =
                            CreateSheet(loc[i].wb, req[i].sheet_name)]
            /\ log' = [log EXCEPT ![i] = @ \o <<"create_sheet", "wb.save">>]
       ELSE UNCHANGED <<files, log>>
    /\ UNCHANGED <<req, call, loc, result, created, cond, fault, tmp, remote,
                   served, EXCEL_FILES_PATH, max_row, client>>

\* result = write_data(full_path, sheet_name, data, start_cell)
WriteData(i) ==
    /\ pc[i] = "w_write"
    /\ LET r == req[i]
           p == loc[i].full_path
           bad == WriteDataError(r.data, r.start_cell)
           tool == "write_data_to_excel"
       IN  IF bad # NoExc
           THEN /\ Done(i, Except(tool, bad).res, "exception", bad,
                        <<"write_data">> \o Except(tool, bad).ev)
                /\ UNCHANGED <<loc, files>>
           ELSE \E out \in {NoExc, Raise("KeyError", <<"unexpected">>)} :
                   IF out # NoExc
                   THEN /\ Done(i, Except(tool, out).res, "exception", out,
                                <<"write_data">> \o Except(tool, out).ev)
                        /\ UNCHANGED <<loc, files>>
                   ELSE /\ Step(i, "w_copy")
                        /\ files' = [files EXCEPT ![p] =
                                        WriteDataBook(@, r.sheet_name, r.data, r.start_cell)]
                        /\ loc' = [loc EXCEPT ![i].message =
                                      WriteDataMessage(files[p], r.sheet_name)]
                        /\ log' = [log EXCEPT ![i] = @ \o <<"write_data">>]
                        /\ UNCHANGED <<result, cond, fault>>
    /\ UNCHANGED <<req, call, created, tmp, remote, served, EXCEL_FILES_PATH, max_row, client>>

\* shutil.copy(full_path, processed_path)
WriteCopy(i) ==
    /\ pc[i] = "w_copy"
    /\ Step(i, "w_upload")
    /\ LET name == UploadedName(i)
       IN  /\ tmp' = WriteTmp(tmp, name,
                        [kind |-> "workbook", wb |-> files[loc[i].full_path], by |-> i])
           /\ created' = [created EXCEPT ![i] = @ \cup {name}]
           /\ loc' = [loc EXCEPT ![i].uploaded = name]
    /\ log' = [log EXCEPT ![i] = @ \o <<"shutil.copy">>]
    /\ UNCHANGED <<req, call, result, cond, fault, files, remote, served,
                   EXCEL_FILES_PATH, max_row, client>>

SshError == Raise("SSHException", <<"unable to connect">>)

\* What the SSH peer and the library do to
\*     transport = paramiko.Transport((host, 22)); transport.connect(...)
\*     sftp = paramiko.SFTPClient.from_transport(transport)
\*     if sftp is not None: sftp.put(local, remote)
\* "fails": one of the calls raises; "no_sftp": from_transport gives None;
\* "hangs": the peer stops answering, and no call carries a timeout.
UploadOutcomes == {"ok", "fails", "no_sftp", "hangs"}

\* sftp.put with a timeout: a silent peer makes the call raise
UploadStep_WithTimeout(i, up, ok, failed) ==
    CASE up \in {"fails", "hangs"} -> failed /\ UNCHANGED remote
      [] up = "no_sftp" -> ok /\ UNCHANGED remote
      [] OTHER ->
           /\ ok
           /\ remote' = remote \cup
                 {[host |-> UploadHost, name |-> loc[i].uploaded,
                   data |-> TmpData(tmp, loc[i].uploaded)]}

\* The upload of loc[i].uploaded: `ok` is what the handler does after the
\* block, `failed` what it does when a call raises.
UploadStep(i, up, ok, failed) ==
    CASE up = "fails" -> failed /\ UNCHANGED remote
      [] up = "hangs" ->
           /\ Step(i, "blocked")
           /\ log' = [log EXCEPT ![i] = @ \o <<"sftp">>]
           /\ UNCHANGED <<result, cond, fault, remote>>
      [] up = "no_sftp" -> ok /\ UNCHANGED remote
      [] OTHER ->
           /\ ok
           /\ remote' = remote \cup
                 {[host |-> UploadHost, name |-> loc[i].uploaded,
                   data |-> TmpData(tmp, loc[i].uploaded)]}

\* the SFTP upload, then the return with the download link
WriteUpload(i) ==
    /\ pc[i] = "w_upload"
    /\ \E up \in UploadOutcomes :
          LET name == loc[i].uploaded
              tool == "write_data_to_excel"
          IN  UploadStep(i, up,
                  Done(i, Returned(loc[i].message \o <<"download link:">>
                                     \o DownloadUrl(name)),
                       "ok", NoExc,
                       IF up = "ok" THEN <<"sftp", "sftp.put">> ELSE <<"sftp">>),
                  Done(i, Except(tool, SshError).res, "exception", SshError,
                       <<"sftp">> \o Except(tool, SshError).ev))
    /\ UNCHANGED <<req, call, loc, created, tmp, files, served, EXCEL_FILES_PATH, max_row, client>>

\* ------------------------------------------------------- document handlers
\* filename = url.split('/')[-1].split('?')[0]
DownloadFilename(url) ==
    LET slashes == {k \in 1..Len(url) : url[k] = "/"}
        last == CHOOSE k \in slashes \cup {0} : \A m \in slashes : m <= k
    IN  SubSeq(url, last + 1, Len(url))

Extensions == {".xlsx", ".pptx", ".docx", ".pdf", ".tmp"}
\* os.path.splitext(name)[0]
Stem(name) ==
    IF Len(name) > 1 /\ name[Len(name)] \in Extensions
    THEN SubSeq(name, 1, Len(name) - 1)
    ELSE name

\* temp_file = os.path.join(tempfile.gettempdir(), f"{uuid.uuid4().hex[:8]}_{filename}")
DownloadName(i, url) == Uuid(i, 1) \o <<"_">> \o DownloadFilename(url)

\* base_name = os.path.splitext(os.path.basename(temp_file))[0]
\* output_filename = f"{base_name}_extracted_tables.xlsx"
OutputName(i, temp_file, output_filename) ==
    IF output_filename = None
    THEN Stem(temp_file) \o <<"_extracted_tables", ".xlsx">>
    ELSE output_filename

\* uploaded_filename = f"extracted_{uuid.uuid4().hex}.xlsx"
ExtractedName(i) == <<"extracted_">> \o Uuid(i, 2) \o <<".xlsx">>

\* what the HTTP peer does to download_file
DocNetOutcomes ==
    {"request_exception", "status_404", "stream_exception", "empty_body", "ok"}
\* number of tables the extractor may find
TableCounts == {0, 2}

\* download_file wraps whatever goes wrong: raise Exception(f"...: {str(e)}")
DownloadFailed ==
    Raise("DownloadError", <<"cannot download file:", "connection timed out">>)
ExtractFailed == Raise("Exception", <<"unsupported file type">>)
SaveFailed == Raise("Exception", <<"cannot save Excel file">>)
NoTablesMsg == <<"no table found in the document">>

\* extract_and_save: except Exception as e: return {'success': False, 'message': ...}
\* extract_tables_from_document: if not result['success']: return f"Error: {result['message']}"
ExtractFailureText(e) == ErrorText(<<"table extraction failed:">> \o e.msg)

\* what the extractor does with the downloaded file: the parsing library
\* raises on a file without content, and the extractor wraps it
ExtractOutcomes(c) ==
    IF c = "empty_body" THEN {ExtractFailed} ELSE {NoExc, ExtractFailed}

\* URL check, then extractor.download_file(url) inside extract_and_save
ExtractDownload(i) ==
    /\ pc[i] = "recv"
    /\ req[i].tool = "extract_tables_from_document"
    /\ LET url == req[i].url
           name == DownloadName(i, url)
           got == <<"url_check", "requests.get">>
       IN  IF ~UrlAccepted(url)
           THEN /\ Done(i, Returned(<<"Error:", "enter a valid http/https link">>),
                        "bad_url", NoExc, <<"url_check">>)
                /\ UNCHANGED <<loc, created, tmp>>
           ELSE \E net \in DocNetOutcomes :
                   CASE net \in {"request_exception", "status_404"} ->
                          /\ Done(i, Returned(ExtractFailureText(DownloadFailed)),
                                  IF net = "status_404" THEN "http_status" ELSE "net_error",
                                  DownloadFailed, got \o <<"logger.error">>)
                          /\ UNCHANGED <<loc, created, tmp>>
                     [] net = "stream_exception" ->
                          \* the file is open when the exception comes; the
                          \* caller's temp_file is still None in its finally
                          /\ Done(i, Returned(ExtractFailureText(DownloadFailed)),
                                  "net_error", DownloadFailed,
                                  got \o <<"open_temp", "logger.error", "finally">>)
                          /\ tmp' = WriteTmp(tmp, name, Bytes(i))
                          /\ created' = [created EXCEPT ![i] = @ \cup {name}]
                          /\ UNCHANGED loc
                     [] OTHER ->
                          /\ Step(i, "e_extract")
                          /\ tmp' = WriteTmp(tmp, name, Bytes(i))
                          /\ created' = [created EXCEPT ![i] = @ \cup {name}]
                          /\ loc' = [loc EXCEPT ![i].temp_file = name]
                          /\ log' = [log EXCEPT ![i] = @ \o got \o <<"open_temp">>]
                          \* no chunk arrived: the file is empty, and nothing
                          \* looks at its size
                          /\ cond' = [cond EXCEPT ![i] =
                                        IF net = "empty_body" THEN "empty_body" ELSE @]
                          /\ UNCHANGED <<result, fault>>
    /\ UNCHANGED <<req, call, files, remote, served, EXCEL_FILES_PATH, max_row, client>>

\* tables = self.extract_tables_from_document(temp_file, file_type)
\* if not tables: return {'success': False, ...}   (finally removes temp_file)
ExtractTables(i) ==
    /\ pc[i] = "e_extract"
    /\ \E out \in ExtractOutcomes(cond[i]), n \in TableCounts :
          LET called == <<"extract_tables_from_document">>
          IN  IF out # NoExc
              THEN /\ Done(i, Returned(ExtractFailureText(out)),
                           IF cond[i] = "empty_body" THEN "empty_body" ELSE "exception",
                           out,
                           called \o <<"logger.error", "finally">>)
                   /\ tmp' = Finally(tmp, loc[i].temp_file)
                   /\ UNCHANGED loc
              ELSE IF n = 0
              THEN /\ Done(i, Returned(ErrorText(NoTablesMsg)), "no_tables", NoExc,
                           called \o <<"finally">>)
                   /\ tmp' = Finally(tmp, loc[i].temp_file)
                   /\ UNCHANGED loc
              ELSE /\ Step(i, "e_save")
                   /\ loc' = [loc EXCEPT ![i].tables = n]
                   /\ log' = [log EXCEPT ![i] = @ \o called]
                   /\ UNCHANGED <<result, cond, fault, tmp>>
    /\ UNCHANGED <<req, call, created, files, remote, served, EXCEL_FILES_PATH, max_row, client>>

Tables(i) == [kind |-> "tables", wb |-> NoFile, by |-> i]

\* output_path = os.path.join(tempfile.gettempdir(), output_filename)
\* save_result = self.save_tables_to_excel(tables, output_path); finally: remove temp_file
ExtractSave(i) ==
    /\ pc[i] = "e_save"
    /\ \E out \in {NoExc, SaveFailed} :
          LET output == OutputName(i, loc[i].temp_file, req[i].output_filename)
              called == <<"save_tables_to_excel">>
          IN  IF out # NoExc
              THEN /\ Done(i, Returned(ExtractFailureText(out)), "exception", out,
                           called \o <<"logger.error", "finally">>)
                   /\ tmp' = Finally(tmp, loc[i].temp_file)
                   /\ UNCHANGED <<loc, created>>
              ELSE /\ tmp' = Finally(WriteTmp(tmp, output, Tables(i)),
                                     loc[i].temp_file)
                   /\ created' = [created EXCEPT ![i] = @ \cup {output}]
                   /\ loc' = [loc EXCEPT ![i].output_file = output]
                   /\ IF req[i].auto_upload
                      THEN /\ Step(i, "e_copy")
                           /\ log' = [log EXCEPT ![i] = @ \o called \o <<"finally">>]
                           /\ UNCHANGED <<result, cond, fault>>
                      ELSE Done(i, Returned(<<"{json}">>), "ok", NoExc,
                                called \o <<"finally">>)
    /\ UNCHANGED <<req, call, files, remote, served, EXCEL_FILES_PATH, max_row, client>>

\* shutil.copy(result['output_file'], uploaded_path)
ExtractCopy(i) ==
    /\ pc[i] = "e_copy"
    /\ Step(i, "e_upload")
    /\ LET name == ExtractedName(i)
       IN  /\ tmp' = WriteTmp(tmp, name, TmpData(tmp, loc[i].output_file))
           /\ created' = [created EXCEPT ![i] = @ \cup {name}]
           /\ loc' = [loc EXCEPT ![i].uploaded = name]
    /\ log' = [log EXCEPT ![i] = @ \o <<"shutil.copy">>]
    /\ UNCHANGED <<req, call, result, cond, fault, files, remote, served,
                   EXCEL_FILES_PATH, max_row, client>>

\* an upload whose failure reaches the outer except of the handler
ExtractUpload_FailureIsError(i) ==
    /\ pc[i] = "e_upload"
    /\ \E up \in UploadOutcomes :
          LET name == loc[i].uploaded
          IN  UploadStep(i, up,
                  Done(i, Returned(<<"{json}">> \o DownloadUrl(name)), "ok", NoExc,
                       IF up = "ok" THEN <<"sftp", "sftp.put">> ELSE <<"sftp">>),
                  Done(i, Returned(ErrorText(<<"table extraction failed -">>
                                               \o SshError.msg)),
                       "exception", SshError, <<"sftp", "logger.error">>))
    /\ UNCHANGED <<req, call, loc, created, tmp, files, served, EXCEL_FILES_PATH, max_row, client>>

\* the SFTP upload; except Exception as upload_error: result['upload_error'] = ...
ExtractUpload(i) ==
    /\ pc[i] = "e_upload"
    /\ \E up \in UploadOutcomes :
          LET name == loc[i].uploaded
          IN  UploadStep(i, up,
                  Done(i, Returned(<<"{json}">> \o DownloadUrl(name)), "ok", NoExc,
                       IF up = "ok" THEN <<"sftp", "sftp.put">> ELSE <<"sftp">>),
                  Done(i, Returned(<<"{json}">>), "ok", SshError,
                       <<"sftp", "logger.error">>))
    /\ UNCHANGED <<req, call, loc, created, tmp, files, served, EXCEL_FILES_PATH, max_row, client>>

\* preview_document_tables, from entry to return
preview_document_tables(i) ==
    /\ pc[i] = "recv"
    /\ req[i].tool = "preview_document_tables"
    /\ LET url == req[i].url
           name == DownloadName(i, url)
           got == <<"url_check", "requests.get">>
           read == got \o <<"open_temp", "extract_tables_from_document">>
           failure(e) == Returned(ErrorText(<<"table preview failed -">> \o e.msg))
       IN  IF ~UrlAccepted(url)
           THEN /\ Done(i, Returned(<<"Error:", "enter a valid http/https link">>),
                        "bad_url", NoExc, <<"url_check">>)
                /\ UNCHANGED <<created, tmp>>
           ELSE \E net \in DocNetOutcomes, n \in TableCounts :
                \E out \in ExtractOutcomes(net) :
                   CASE net \in {"request_exception", "status_404"} ->
                          /\ Done(i, failure(DownloadFailed),
                                  IF net = "status_404" THEN "http_status" ELSE "net_error",
                                  DownloadFailed, got \o <<"logger.error">>)
                          /\ UNCHANGED <<created, tmp>>
                     [] net = "stream_exception" ->
                          \* download_file raised before the try that cleans up
                          /\ Done(i, failure(DownloadFailed), "net_error", DownloadFailed,
                                  got \o <<"open_temp", "logger.error">>)
                          /\ tmp' = WriteTmp(tmp, name, Bytes(i))
                          /\ created' = [created EXCEPT ![i] = {name}]
                     [] OTHER ->
                          /\ tmp' = Finally(WriteTmp(tmp, name, Bytes(i)), name)
                          /\ created' = [created EXCEPT ![i] = {name}]
                          /\ IF out # NoExc
                             THEN Done(i, failure(out),
                                       IF net = "empty_body" THEN "empty_body"
                                       ELSE "exception",
                                       out, read \o <<"finally", "logger.error">>)
                             ELSE IF n = 0
                             THEN Done(i, Returned(NoTablesMsg), "no_tables", NoExc,
                                       read \o <<"finally">>)
                             ELSE Done(i, Returned(<<"{json}">>), "ok", NoExc,
                                       read \o <<"finally">>)
    /\ UNCHANGED <<req, call, loc, files, remote, served, EXCEL_FILES_PATH, max_row, client>>

\* ----------------------------------------- read_excel_data_in_batches, rows
Min(a, b) == IF a <= b THEN a ELSE b
Max(a, b) == IF a >= b THEN a ELSE b

\* end_row = max_row if end_row is None else min(end_row, max_row)
effective_end_row(end_row, mr) ==
    IF end_row = None THEN mr ELSE Min(end_row[1], mr)

\* a batch that runs on past the end of the range
current_end_row_Unclipped(start_row, batch_size, end_row) ==
    start_row + batch_size - 1

\* current_end_row = min(start_row + batch_size - 1, end_row)
current_end_row(start_row, batch_size, end_row) ==
    Min(start_row + batch_size - 1, end_row)

\* for row in range(start_row, current_end_row + 1): batch_data.append(...)
\* (a row is told from the others by its number)
batch_data(start_row, last) == [k \in 1..(last - start_row + 1) |-> start_row + k - 1]

\* "remaining_batches": (end_row - current_end_row) // batch_size + 1
remaining_batches(end_row, last, batch_size) ==
    (end_row - last) \div batch_size + 1

\* The JSON a successful read_excel_data_in_batches returns; next_batch_info
\* is None when the key is absent, else <<the record>>.
BatchResponse(start_row, batch_size, end_row_arg, mr) ==
    LET end_row == effective_end_row(end_row_arg, mr)
        last == current_end_row(start_row, batch_size, end_row)
        data == batch_data(start_row, last)
    IN  [current_batch |->
            [start_row |-> start_row, end_row |-> last, rows_count |-> Len(data)],
         total_progress |->
            [total_rows |-> end_row - start_row + 1,
             read_rows |-> last - start_row + 1,
             remaining_rows |-> Max(0, end_row - last)],
         data |-> data,
         next_batch_info |->
            IF last < end_row
            THEN << [start_row |-> last + 1, end_row |-> end_row,
                     remaining_batches |->
                        remaining_batches(end_row, last, batch_size)] >>
            ELSE None]

serverVars ==
    <<pc, req, call, loc, result, log, created, cond, fault, tmp, files, remote,
      served, EXCEL_FILES_PATH>>

\* The caller sends its request; the handler downloads the workbook, finds
\* the sheet and answers with one batch.
BatchRead ==
    /\ client.state = "call"
    /\ LET response == BatchResponse(client.start_row, client.batch_size,
                                     client.end_row, max_row)
       IN  client' = [client EXCEPT !.state = "got",
                                    !.calls = @ + 1,
                                    !.response = response,
                                    !.received = @ \o response.data]
    /\ UNCHANGED <<serverVars, max_row>>

\* the caller takes start_row and end_row of its next call from next_batch_info
FollowNextBatch ==
    /\ client.state = "got"
    /\ client.response.next_batch_info # None
    /\ LET next == client.response.next_batch_info[1]
       IN  client' = [client EXCEPT !.state = "call",
                                    !.start_row = next.start_row,
                                    !.end_row = <<next.end_row>>]
    /\ UNCHANGED <<serverVars, max_row>>

\* a response without next_batch_info ends the reading
EndOfBatches ==
    /\ client.state = "got"
    /\ client.response.next_batch_info = None
    /\ client' = [client EXCEPT !.state = "done"]
    /\ UNCHANGED <<serverVars, max_row>>

\* -------------------------------------------------- the limits on responses
\* Python's s[:k]: the first k items, or all but the last -k when k < 0
SliceTo(s, k) ==
    SubSeq(s, 1, IF k >= 0 THEN Min(k, Len(s)) ELSE Max(0, Len(s) + k))

\* a slice that cuts nothing
SliceTo_Whole(s, k) == s

\* the n items of a range, a workbook or a document, told apart by number
Items(n) == [k \in 1..n |-> k]

\* The caller's answer is in client.response.
Answer(response) ==
    /\ client.state = "call"
    /\ client' = [client EXCEPT !.state = "got", !.response = response]
    /\ UNCHANGED <<serverVars, max_row>>

\* read_data_from_excel after the delegate returned `cells`: the cut to
\* max_cells, the cut to max_rows * 10, and the short form taken when the JSON
\* text is longer than 50000 characters (`big`).  An absent key is None.
ReadDataResponse(cells, max_cells, max_rows, big) ==
    LET cut1 == Len(cells) > max_cells
        c1 == IF cut1 THEN SliceTo(cells, max_cells) ELSE cells
        cut2 == Len(c1) > max_rows * 10
        c2 == IF cut2 THEN SliceTo(c1, max_rows * 10) ELSE c1
    IN  IF max_rows <= 0 \/ max_cells <= 0
        THEN [kind |-> "rejected", cells |-> <<>>, truncated |-> None,
              total_cells |-> None]
        ELSE IF cells = <<>>
        THEN [kind |-> "no_data", cells |-> <<>>, truncated |-> None,
              total_cells |-> None]
        ELSE IF big
        THEN [kind |-> "simplified", cells |-> SliceTo(c2, 10), truncated |-> None,
              total_cells |-> <<Len(c2)>>]
        ELSE [kind |-> "full", cells |-> c2,
              truncated |-> IF cut1 \/ cut2 THEN <<TRUE>> ELSE None,
              total_cells |-> IF cut1 THEN <<Len(c1)>> ELSE None]

ReadData ==
    /\ client.tool = "read_data_from_excel"
    /\ Answer(ReadDataResponse(Items(client.n), client.max_cells, client.max_rows,
                               client.big))

\* get_workbook_metadata after the delegate returned `sheets`: the cut to
\* max_sheets_info, and the short form taken when str(result) is longer than
\* 10000 characters (`big`)
MetadataResponse(sheets, max_sheets_info, big) ==
    LET cut == Len(sheets) > max_sheets_info
    IN  IF big
        THEN [kind |-> "simplified", sheets |-> <<>>, truncated |-> None,
              total_sheets |-> None]
        ELSE [kind |-> "full",
              sheets |-> IF cut THEN SliceTo(sheets, max_sheets_info) ELSE sheets,
              truncated |-> IF cut THEN <<TRUE>> ELSE None,
              total_sheets |-> IF cut THEN <<Len(sheets)>> ELSE None]

WorkbookMetadata ==
    /\ client.tool = "get_workbook_metadata"
    /\ Answer(MetadataResponse(Items(client.n), client.max_sheets_info, client.big))

\* get_excel_file_info: the batch size it suggests for a sheet of total_cells
suggested_batch_size(total_cells) ==
    IF total_cells > 10000 THEN 20
    ELSE IF total_cells > 5000 THEN 50
    ELSE IF total_cells > 1000 THEN 100
    ELSE 200

\* a count of the full batches only
estimated_batches_Floor(rows, size) == rows \div size

\* (rows + suggested_batch_size - 1) // suggested_batch_size
estimated_batches(rows, size) == (rows + size - 1) \div size

\* get_excel_file_info after the workbook was loaded: the sheet asked for (the
\* first when none is named) has `rows` rows and `columns` columns, if it exists
FileInfoResponse(sheet_name, rows, columns) ==
    LET name == IF sheet_name = NoSheet THEN RemoteSheets[1] ELSE sheet_name
    IN  IF InSeq(name, RemoteSheets)
        THEN [kind |-> "info",
              target_sheet_info |->
                 << [name |-> name, rows |-> rows, columns |-> columns] >>,
              suggested_batch_size |-> suggested_batch_size(rows * columns),
              estimated_batches |->
                 estimated_batches(rows, suggested_batch_size(rows * columns))]
        ELSE [kind |-> "info", target_sheet_info |-> None,
              suggested_batch_size |-> 50, estimated_batches |-> 0]

FileInfo ==
    /\ client.tool = "get_excel_file_info"
    /\ Answer(FileInfoResponse(client.sheet_name, client.rows, client.columns))

\* DocumentExtractor: the libraries that were importable decide which
\* formats are supported
supported_formats(avail) ==
    [t \in {"pptx", "ppt", "docx", "doc", "pdf"} |->
        CASE t \in {"pptx", "ppt"} -> avail.PPTX_AVAILABLE
          [] t \in {"docx", "doc"} -> avail.DOCX_AVAILABLE
          [] OTHER -> avail.PDFPLUMBER_AVAILABLE \/ avail.PYPDF2_AVAILABLE]

\* tokens of a file name that hold a '.'
DotTokens == {".pptx", ".ppt", ".docx", ".doc", ".pdf", ".PDF", ".tmp", ".xlsx"}
LongName == <<"name-of-101-characters", ".pdf">>

\* download_file: the name the downloaded file gets, from the name the
\* response or the URL gives and the keywords its content-type holds
download_filename(filename, content_type) ==
    LET name == IF filename = <<>> \/ filename = LongName
                THEN <<"document">> ELSE filename
    IN  IF \E k \in 1..Len(name) : name[k] \in DotTokens
        THEN name
        ELSE name \o
             << CASE content_type \cap {"powerpoint", "presentation"} # {} -> ".pptx"
                  [] content_type \cap {"word", "document"} # {} -> ".docx"
                  [] "pdf" \in content_type -> ".pdf"
                  [] OTHER -> ".tmp" >>

\* os.path.splitext(temp_file)[1].lower().lstrip('.')
splitext_type(temp_file) ==
    LET last == temp_file[Len(temp_file)]
    IN  CASE last \notin DotTokens -> ""
          [] last \in {".pdf", ".PDF"} -> "pdf"
          [] last = ".pptx" -> "pptx"
          [] last = ".ppt" -> "ppt"
          [] last = ".docx" -> "docx"
          [] last = ".doc" -> "doc"
          [] last = ".tmp" -> "tmp"
          [] OTHER -> "xlsx"

\* an extractor that takes every type it does not know for a PDF
extract_tables_from_document_Lenient(file_path, file_type, avail) ==
    LET t == IF file_type = "" THEN splitext_type(file_path) ELSE file_type
    IN  CASE t \in {"pptx", "ppt"} ->
               [raised |-> FALSE, invoked |-> <<"extract_tables_from_pptx">>]
          [] t \in {"docx", "doc"} ->
               [raised |-> FALSE, invoked |-> <<"extract_tables_from_docx">>]
          [] OTHER ->
               [raised |-> FALSE, invoked |-> <<"extract_tables_from_pdf">>]

\* DocumentExtractor.extract_tables_from_document: the extractors it invokes,
\* and whether it raises before invoking one
extract_tables_from_document(file_path, file_type, avail) ==
    LET t == IF file_type = "" THEN splitext_type(file_path) ELSE file_type
    IN  IF t \notin DOMAIN supported_formats(avail)
        THEN [raised |-> TRUE, invoked |-> <<>>]
        ELSE IF ~supported_formats(avail)[t]
        THEN [raised |-> TRUE, invoked |-> <<>>]
        ELSE CASE t \in {"pptx", "ppt"} ->
                    [raised |-> FALSE, invoked |-> <<"extract_tables_from_pptx">>]
               [] t \in {"docx", "doc"} ->
                    [raised |-> FALSE, invoked |-> <<"extract_tables_from_docx">>]
               [] t = "pdf" ->
                    [raised |-> FALSE, invoked |-> <<"extract_tables_from_pdf">>]
               [] OTHER -> [raised |-> TRUE, invoked |-> <<>>]

\* extract_and_save from the download to the extraction: the temp file's
\* name, its type, the extractor invoked, and success or failure
extract_and_save ==
    /\ client.tool = "extract_and_save"
    /\ LET temp_file == <<"uuid8_">> \o
                            download_filename(client.filename, client.content_type)
           file_type == splitext_type(temp_file)
           r == extract_tables_from_document(temp_file, file_type, client.avail)
       IN  Answer([kind |-> IF r.raised \/ client.extractor_raises
                            THEN "failure" ELSE "tables",
                   temp_file |-> temp_file,
                   file_type |-> file_type,
                   invoked |-> r.invoked])

\* preview_document_tables after the extraction: `tables` holds the number
\* of rows of each table found
PreviewResponse(tables, max_tables, max_rows_per_table) ==
    IF tables = <<>>
    THEN [kind |-> "no_tables"]
    ELSE LET preview_tables == SliceTo(tables, max_tables)
         IN  [kind |-> "preview",
              total_tables_found |-> Len(tables),
              preview_tables_count |-> Len(preview_tables),
              tables_preview |->
                 [k \in 1..Len(preview_tables) |->
                    [table_index |-> k,
                     total_rows |-> preview_tables[k],
                     preview_rows |->
                        Len(SliceTo(Items(preview_tables[k]),
                                    max_rows_per_table))]]]

PreviewTables ==
    /\ client.tool = "preview_document_tables"
    /\ Answer(PreviewResponse([k \in 1..client.n |-> client.rows],
                              client.max_tables, client.max_rows_per_table))

\* ---------------------------------------------------------------- dispatch
\* the names registered with @mcp.tool()
RegisteredTools ==
    SimpleTools \cup UrlTools
    \cup {"apply_formula", "validate_excel_range", "get_data_validation_info",
          "write_data_to_excel", "extract_tables_from_document",
          "preview_document_tables"}

UnknownOperationError == Raise("UnknownOperationError", <<"Unknown tool">>)

\* a dispatcher that falls back to a handler that writes a scratch file
UnknownOperation_Fallback(i) ==
    /\ pc[i] = "recv"
    /\ req[i].tool \notin RegisteredTools
    /\ Done(i, Raised(UnknownOperationError), "unknown_operation",
            UnknownOperationError, <<"open_temp">>)
    /\ tmp' = WriteTmp(tmp, UrlTempName(i), Bytes(i))
    /\ created' = [created EXCEPT ![i] = {UrlTempName(i)}]
    /\ UNCHANGED <<req, call, loc, files, remote, served, EXCEL_FILES_PATH, max_row, client>>

\* invoke(name, args) for a name no handler is registered under: no handler runs
UnknownOperation(i) ==
    /\ pc[i] = "recv"
    /\ req[i].tool \notin RegisteredTools
    /\ Done(i, Raised(UnknownOperationError), "unknown_operation",
            UnknownOperationError, <<>>)
    /\ UNCHANGED <<req, call, loc, created, tmp, files, remote, served,
                   EXCEL_FILES_PATH, max_row, client>>

\* ------------------------------------------------------------ the requests
PathRequests ==
    [tool : SimpleTools \cup {"apply_formula"}, filepath : Filenames]
RangeRequests ==
    [tool : {"validate_excel_range"}, filepath : Filenames,
     start_cell : {A1, B2}, end_cell : {None, A1, B2}]
ValidationInfoRequests ==
    [tool : {"get_data_validation_info"}, filepath : Filenames,
     sheet_name : {"Sheet1", "Missing"}]
UrlRequests ==
    [tool : {"read_data_from_excel"}, url : Urls, sheet_name : {NoSheet},
     max_rows : {0, 1}, max_cells : {0, 1}]
    \cup [tool : {"preview_excel_data"}, url : Urls, sheet_name : SheetArgs]
    \cup [tool : {"get_workbook_metadata"}, url : Urls]
    \cup [tool : {"read_excel_data_in_batches"}, url : Urls, sheet_name : SheetArgs,
          batch_size : {0, 1}, start_row : {0, 1}]
    \cup [tool : {"get_excel_file_info"}, url : Urls, sheet_name : SheetArgs]
WriteRequests ==
    [tool : {"write_data_to_excel"}, filepath : Filenames,
     sheet_name : {NoSheet, "Sheet1", "Summary"}, data : {None, Payload(1)},
     start_cell : {A1, B2, <<"2", "B">>}]
DocUrls ==
    { HttpsPrefix \o <<"host", "/", "deck", ".pptx">>,
      <<"f", "t", "p", ":", "/", "/", "host", "/", "deck", ".pptx">>,
      <<"deck", ".pptx">> }
ExtractRequests ==
    [tool : {"extract_tables_from_document"}, url : DocUrls,
     output_filename : {None, <<"tables", ".xlsx">>}, auto_upload : BOOLEAN]
PreviewRequests == [tool : {"preview_document_tables"}, url : DocUrls]
\* a name no handler is registered under
UnknownRequests == [tool : {"no_such_tool"}]

Requests ==
    PathRequests \cup RangeRequests \cup ValidationInfoRequests \cup UrlRequests
    \cup WriteRequests \cup ExtractRequests \cup PreviewRequests
    \cup UnknownRequests

\* the requests whose handlers are followed step by step when they overlap
ConcRequests ==
    [tool : {"write_data_to_excel"}, filepath : {<<"book", ".xlsx">>},
     sheet_name : {"Summary"}, data : {Payload(1)}, start_cell : {A1}]
    \cup [tool : {"write_data_to_excel"}, filepath : {<<"book", ".xlsx">>},
          sheet_name : {NoSheet}, data : {Payload(2)}, start_cell : {A1}]
    \cup [tool : {"extract_tables_from_document"},
          url : {HttpsPrefix \o <<"host", "/", "deck", ".pptx">>},
          output_filename : {<<"tables", ".xlsx">>}, auto_upload : {TRUE}]

Accept(i, r) ==
    /\ pc' = [pc EXCEPT ![i] = "recv"]
    /\ req' = [req EXCEPT ![i] = r]
    /\ call' = [call EXCEPT ![i] = served + 1]
    /\ served' = served + 1
    /\ UNCHANGED <<loc, result, log, created, cond, fault, tmp, files, remote,
                   EXCEL_FILES_PATH, max_row, client>>

\* The transport that runs one handler to its end before it takes the next
\* request.
Receive(i) ==
    /\ \A j \in Inv : pc[j] = "idle"
    /\ \A j \in Inv : j >= i
    /\ served < MaxCalls
    /\ \E r \in Requests : Accept(i, r)

\* The transport that runs handlers side by side (a thread per request).
\* Slots are taken in order: which slot serves a request makes no difference.
ReceiveConc(i) ==
    /\ pc[i] = "idle"
    /\ \A j \in Inv : j < i => pc[j] # "idle"
    /\ \E r \in ConcRequests : Accept(i, r)

\* the result goes to the caller; the slot is free again
Return(i) ==
    /\ pc[i] = "done"
    /\ pc' = [pc EXCEPT ![i] = "idle"]
    /\ req' = [req EXCEPT ![i] = NoReq]
    /\ call' = [call EXCEPT ![i] = 0]
    /\ loc' = [loc EXCEPT ![i] = NoLoc]
    /\ result' = [result EXCEPT ![i] = NoResult]
    /\ log' = [log EXCEPT ![i] = <<>>]
    /\ created' = [created EXCEPT ![i] = {}]
    /\ cond' = [cond EXCEPT ![i] = "none"]
    /\ fault' = [fault EXCEPT ![i] = NoExc]
    /\ UNCHANGED <<tmp, files, remote, served, EXCEL_FILES_PATH, max_row, client>>

Next ==
    \E i \in Inv :
        \/ Receive(i)
        \/ UnknownOperation(i)
        \/ SimpleCall(i)
        \/ validate_excel_range(i)
        \/ apply_formula(i)
        \/ get_data_validation_info(i)
        \/ UrlCall(i)
        \/ WriteResolve(i)
        \/ WriteLoad(i)
        \/ WriteSheet(i)
        \/ WriteData(i)
        \/ WriteCopy(i)
        \/ WriteUpload(i)
        \/ ExtractDownload(i)
        \/ ExtractTables(i)
        \/ ExtractSave(i)
        \/ ExtractCopy(i)
        \/ ExtractUpload(i)
        \/ preview_document_tables(i)
        \/ Return(i)

Spec == Init /\ [][Next]_vars

NextConc ==
    \E i \in Inv :
        \/ ReceiveConc(i)
        \/ WriteResolve(i)
        \/ WriteLoad(i)
        \/ WriteSheet(i)
        \/ WriteData(i)
        \/ WriteCopy(i)
        \/ WriteUpload(i)
        \/ ExtractDownload(i)
        \/ ExtractTables(i)
        \/ ExtractSave(i)
        \/ ExtractCopy(i)
        \/ ExtractUpload(i)

\* Handlers overlap under the SSE and streamable-HTTP transports, which set
\* EXCEL_FILES_PATH; the stdio transport reads one request at a time.
InitConc == Init /\ EXCEL_FILES_PATH = DefaultFilesPath

SpecConc == InitConc /\ [][NextConc]_vars

\* Overlapping invocations of write_data_to_excel alone.
WriteConcRequests == {r \in ConcRequests : r.tool = "write_data_to_excel"}

ReceiveWrites(i) ==
    /\ pc[i] = "idle"
    /\ \A j \in Inv : j < i => pc[j] # "idle"
    /\ \E r \in WriteConcRequests : Accept(i, r)

NextWrites ==
    \E i \in Inv :
        \/ ReceiveWrites(i)
        \/ WriteResolve(i)
        \/ WriteLoad(i)
        \/ WriteSheet(i)
        \/ WriteData(i)
        \/ WriteCopy(i)
        \/ WriteUpload(i)

\* the workbook written to exists before the first request
InitWrites == InitConc /\ files = [p \in ResolvedPaths |-> OldBook]

SpecWrites == InitWrites /\ [][NextWrites]_vars

\* One server process in either mode: MaxServed requests to write a workbook
\* under a relative or an absolute name, one after another or side by side.
ReceivePaths(i) ==
    /\ served < MaxServed
    /\ pc[i] = "idle"
    /\ \A j \in Inv : j < i => pc[j] # "idle"
    /\ \E r \in WriteConcRequests, f \in Filenames :
          r.sheet_name = NoSheet /\ Accept(i, [r EXCEPT !.filepath = f])

NextPaths ==
    \E i \in Inv :
        \/ ReceivePaths(i)
        \/ WriteResolve(i)
        \/ WriteLoad(i)
        \/ WriteSheet(i)
        \/ WriteData(i)
        \/ WriteCopy(i)
        \/ WriteUpload(i)
        \/ Return(i)

InitPaths == Init /\ files = [p \in ResolvedPaths |-> OldBook]

SpecPaths == InitPaths /\ [][NextPaths]_vars

\* A caller that reads one sheet in batches: every sheet size, batch size,
\* first row and last row (None, or a number on either side of max_row).
NewClient(batch_size, start_row, end_row) ==
    [state |-> "call", batch_size |-> batch_size, start_row |-> start_row,
     end_row |-> end_row, asked |-> [start_row |-> start_row, end_row |-> end_row],
     calls |-> 0, received |-> <<>>, response |-> None]

InitBatch ==
    /\ InitServer
    /\ EXCEL_FILES_PATH = None
    /\ \A p \in ResolvedPaths : ~files[p].exists
    /\ max_row \in 1..MaxRow
    /\ \E batch_size \in 1..MaxBatch, start_row \in 1..(MaxRow + 1),
          end_row \in {None} \cup {<<n>> : n \in 0..(MaxRow + 1)} :
          client = NewClient(batch_size, start_row, end_row)

NextBatch == BatchRead \/ FollowNextBatch \/ EndOfBatches

\* the caller goes on until a response ends the reading
SpecBatch == InitBatch /\ [][NextBatch]_vars /\ WF_vars(NextBatch)

\* A caller of one of the handlers that cut their answer to a limit, with
\* what the handler finds in the file it fetched.
ReadDataCalls ==
    [state : {"call"}, tool : {"read_data_from_excel"}, n : 0..NCells,
     max_cells : 0..NCells, max_rows : 0..2, big : BOOLEAN, response : {None}]
MetadataCalls ==
    [state : {"call"}, tool : {"get_workbook_metadata"}, n : 0..NSheets,
     max_sheets_info : 0..NSheets, big : BOOLEAN, response : {None}]
\* get_excel_file_info with ws.max_row and ws.max_column on both sides of
\* every threshold; extract_and_save with the name a response or a URL gives
\* a download, the keywords of its content-type and the libraries that were
\* importable; preview_document_tables with any integers for its limits
\* (nothing checks them)
LimitCalls ==
    ReadDataCalls \cup MetadataCalls
    \cup
    [state : {"call"}, tool : {"get_excel_file_info"}, sheet_name : SheetArgs,
     rows : {1, 100, 199, 200, 201, 1000, 1001, 5000, 5001},
     columns : {1, 2, 5, 10, 11}, response : {None}]
    \cup
    [state : {"call"}, tool : {"extract_and_save"},
     filename :
        {<<>>, <<"slides">>, LongName, <<"slides", ".pptx">>, <<"old", ".ppt">>,
         <<"text", ".docx">>, <<"old", ".doc">>, <<"paper", ".pdf">>,
         <<"PAPER", ".PDF">>, <<"book", ".xlsx">>},
     content_type :
        {{}, {"presentation", "document"}, {"word", "document"}, {"pdf"}, {"html"}},
     avail :
        [PPTX_AVAILABLE : BOOLEAN, DOCX_AVAILABLE : BOOLEAN,
         PDFPLUMBER_AVAILABLE : BOOLEAN, PYPDF2_AVAILABLE : BOOLEAN],
     extractor_raises : BOOLEAN, response : {None}]
    \cup
    [state : {"call"}, tool : {"preview_document_tables"}, n : 0..NTables,
     rows : 0..NTables, max_tables : -1..NTables,
     max_rows_per_table : -1..NTables, response : {None}]

InitLimits ==
    /\ InitServer
    /\ EXCEL_FILES_PATH = None
    /\ \A p \in ResolvedPaths : ~files[p].exists
    /\ max_row = 1
    /\ client \in LimitCalls

NextLimits ==
    ReadData \/ WorkbookMetadata \/ FileInfo \/ extract_and_save \/ PreviewTables

SpecLimits == InitLimits /\ [][NextLimits]_vars

\* ================================================================== claims

Finished(i) == pc[i] = "done"

\* C1: every temporary file an invocation wrote is gone when the invocation
\* has returned or raised, on every path.
C1_TempFilesRemoved ==
    \A i \in Inv : Finished(i) => created[i] \cap TmpNames(tmp) = {}

\* C2: a domain error or a fetch error raised inside a handler never reaches
\* the transport: the handler returns an "Error:" string.
C2_DomainErrorsBecomeFailures ==
    \A i \in Inv :
        Finished(i) /\ fault[i].k \in DomainErrors \cup FetchErrors
            => IsErrorString(result[i])

\* C3: an exception that is neither a domain error nor a fetch error is
\* logged and raised to the transport, never turned into a returned string.
C3_OtherErrorsReraised ==
    \A i \in Inv :
        Finished(i) /\ fault[i].k \notin DomainErrors \cup FetchErrors \cup {"ok"}
            => result[i].how = "raise" /\ InSeq("logger.error", log[i])

\* C4: a URL-taking tool given an input that starts neither with http:// nor
\* with https:// returns an error string, having issued no network request
\* and having created no temporary file.
UrlTakingTools ==
    UrlTools \cup {"extract_tables_from_document", "preview_document_tables"}
NotHttp(u) ==
    /\ ~(Len(u) >= 7 /\ SubSeq(u, 1, 7) = <<"h", "t", "t", "p", ":", "/", "/">>)
    /\ ~(Len(u) >= 8 /\ SubSeq(u, 1, 8) = <<"h", "t", "t", "p", "s", ":", "/", "/">>)
C4_NonHttpRejectedBeforeIO ==
    \A i \in Inv :
        req[i].tool \in UrlTakingTools /\ NotHttp(req[i].url) =>
            /\ pc[i] \in {"recv", "done"}
            /\ created[i] = {}
            /\ ~InSeq("requests.get", log[i])
            /\ ~InSeq("open_temp", log[i])
            /\ Finished(i) => IsErrorString(result[i])
C4_Witness ==
    \E i \in Inv :
        /\ req[i].tool = "extract_tables_from_document"
        /\ NotHttp(req[i].url)
        /\ Finished(i)
        /\ IsErrorString(result[i])

\* C5: two invocations in flight never write the same temporary file.
C5_TempNamesDisjoint ==
    \A i, j \in Inv : i # j => created[i] \cap created[j] = {}

\* C6: write_data_to_excel takes no lock on the workbook path: a step of one
\* invocation is never held back by another invocation that stands between
\* its load and its upload of the same file.
WriteInFlight(j) ==
    /\ req[j].tool = "write_data_to_excel"
    /\ pc[j] \in {"w_load", "w_sheet", "w_write", "w_copy", "w_upload"}
C6_WritesNotSerialized ==
    \A i, j \in Inv :
        (/\ i # j
         /\ req[i].tool = "write_data_to_excel"
         /\ WriteInFlight(j)
         /\ get_excel_path(req[i].filepath) = loc[j].full_path) =>
            /\ pc[i] = "recv" => ENABLED WriteResolve(i)
            /\ pc[i] = "w_load" => ENABLED WriteLoad(i)
            /\ pc[i] = "w_sheet" => ENABLED WriteSheet(i)
            /\ pc[i] = "w_write" => ENABLED WriteData(i)
            /\ pc[i] = "w_copy" => ENABLED WriteCopy(i)
\* Two overlapping writes to one path have both returned success; the data
\* of j is gone from the file, and the copy j uploaded holds the data of i.
C6_LostUpdate ==
    \E i, j \in Inv :
        /\ i # j
        /\ req[i].tool = "write_data_to_excel" /\ req[j].tool = "write_data_to_excel"
        /\ Finished(i) /\ Finished(j) /\ cond[i] = "ok" /\ cond[j] = "ok"
        /\ loc[i].full_path = loc[j].full_path
        /\ req[i].sheet_name = "Summary" /\ req[j].sheet_name = NoSheet
        /\ \A c \in files[loc[j].full_path].cells : c[4] \notin {21, 22, 23, 24, 25, 26}
        /\ \E f \in remote :
              /\ f.name = loc[j].uploaded
              /\ <<"Summary", 1, 1, 11>> \in f.data.wb.cells

\* C7 (as claimed): when rename_sheet raises SheetError, rename_worksheet
\* returns a failure that names the kind SheetError and carries the message.
RenameFailed(i) ==
    /\ req[i].tool = "rename_worksheet"
    /\ Finished(i)
    /\ fault[i].k = "SheetError"
MalformedRangeDone(i) ==
    /\ req[i].tool = "validate_excel_range"
    /\ Finished(i)
    /\ req[i].start_cell = <<"B", "2">>
    /\ req[i].end_cell = <<"A", "1">>
SixCells(sheet, start_cell) ==
    IF start_cell = <<"A", "1">>
    THEN { <<sheet, 1, 1, 11>>, <<sheet, 1, 2, 12>>, <<sheet, 2, 1, 13>>,
           <<sheet, 2, 2, 14>>, <<sheet, 3, 1, 15>>, <<sheet, 3, 2, 16>> }
    ELSE { <<sheet, 2, 2, 11>>, <<sheet, 2, 3, 12>>, <<sheet, 3, 2, 13>>,
           <<sheet, 3, 3, 14>>, <<sheet, 4, 2, 15>>, <<sheet, 4, 3, 16>> }
WroteToNewSheet(i) ==
    /\ req[i].tool = "write_data_to_excel"
    /\ req[i].data = << <<11, 12>>, <<13, 14>>, <<15, 16>> >>
    /\ req[i].start_cell \in { <<"A", "1">>, <<"B", "2">> }
    /\ req[i].sheet_name # NoSheet
    /\ pc[i] \in {"w_copy", "w_upload", "done"}
    /\ fault[i].k \in {"ok", "SSHException"}
    /\ ~InSeq(req[i].sheet_name, loc[i].wb.sheets)
C9_WriteCreatesSheetAndData ==
    \A i \in Inv :
        WroteToNewSheet(i) =>
            LET before == loc[i].wb
                after == files[loc[i].full_path]
                sheet == req[i].sheet_name
            IN  /\ after.exists
                /\ after.sheets = before.sheets \o <<sheet>>
                /\ {c \in after.cells : c[1] = sheet} = SixCells(sheet, req[i].start_cell)
                /\ Cardinality({c \in after.cells : c[1] = sheet}) = 6
                /\ {c \in after.cells : c[1] # sheet} = before.cells
C9_Witness ==
    \E i \in Inv :
        /\ WroteToNewSheet(i)
        /\ Finished(i) /\ cond[i] = "ok"
        /\ InSeq("create_workbook_impl", log[i])
        /\ req[i].start_cell = <<"B", "2">>

\* C10: a returned result begins with "Error:" exactly when the operation
\* failed (bad argument, failed download, missing sheet, no data, no table,
\* exception).
C10_ErrorPrefixIffFailure ==
    \A i \in Inv :
        Finished(i) /\ result[i].how = "return"
            => (cond[i] # "ok" <=> IsErrorString(result[i]))

\* the events in which a handler hands the fetched file to its delegate
DelegateEvents ==
    {"read_excel_range_with_metadata", "get_workbook_info",
     "extract_tables_from_document", "save_tables_to_excel"}

FetchFailed(i) == cond[i] \in {"http_status", "empty_body", "not_excel"}

\* C11: a fetch that ends in a non-200 status, an empty body or a file that
\* does not parse gives an "Error:" result, and the handler has not called its
\* delegate on the fetched file, for spreadsheet and document fetches alike.
C11_FetchFailureStopsBeforeDelegate ==
    \A i \in Inv :
        (Finished(i) /\ FetchFailed(i)) =>
            /\ IsErrorString(result[i])
            /\ \A e \in DelegateEvents : ~InSeq(e, log[i])

\* the handler holds the path get_excel_path gave it
Resolved(i) ==
    req[i].tool = "write_data_to_excel" /\ loc[i].full_path # None

\* C12: get_excel_path returns an absolute file name unchanged; a relative
\* one it joins to the base directory when one is configured, and makes
\* absolute against the working directory otherwise; it fails on no input.
C12_PathResolution ==
    \A i \in Inv :
        /\ (pc[i] = "recv" /\ req[i].tool = "write_data_to_excel")
              => ENABLED WriteResolve(i)
        /\ Resolved(i) =>
              LET f == req[i].filepath
                  full_path == loc[i].full_path
              IN  /\ isabs(f) => full_path = f
                  /\ (~isabs(f) /\ EXCEL_FILES_PATH # None) =>
                        full_path = EXCEL_FILES_PATH \o <<"/">> \o f
                  /\ (~isabs(f) /\ EXCEL_FILES_PATH = None) =>
                        full_path = <<"/", "cwd", "/">> \o f /\ isabs(full_path)

\* a relative name resolved under a configured base directory
C12_Witness ==
    \E i \in Inv :
        /\ Resolved(i)
        /\ ~isabs(req[i].filepath)
        /\ EXCEL_FILES_PATH = DefaultFilesPath
        /\ loc[i].full_path = <<".", "excel_files", "/", "book", ".xlsx">>

Unregistered(i) == pc[i] \notin {"idle"} /\ req[i].tool \notin RegisteredTools

\* C13: an invocation that names no registered operation ends in
\* UnknownOperationError, and from its receipt to its end no file is read,
\* written or uploaded.
C13_UnknownOperationFailsClosed ==
    [][\A i \in Inv :
          (Unregistered(i) /\ pc[i] = "recv") =>
              /\ pc'[i] = "done"
              /\ result'[i] = Raised(UnknownOperationError)
              /\ log'[i] = <<>>
              /\ created'[i] = {}
              /\ UNCHANGED <<tmp, files, remote>>]_vars

\* an unregistered name was invoked and the invocation has ended
C13_Witness ==
    \E i \in Inv :
        /\ Unregistered(i)
        /\ Finished(i)
        /\ result[i].exc = "UnknownOperationError"

\* the events in which a handler touches a file, a temp file or the network
EffectEvents ==
    {"create_workbook_impl", "load_workbook", "create_sheet", "wb.save",
     "requests.get", "open_temp", "shutil.copy", "sftp"}

\* the invocation ended because its arguments were found invalid
ArgumentsRejected(i) ==
    \/ cond[i] \in {"bad_url", "bad_param"}
    \/ /\ req[i].tool = "write_data_to_excel"
       /\ fault[i] # NoExc
       /\ fault[i] = WriteDataError(req[i].data, req[i].start_cell)

\* C14: an invocation passes through validation before it resolves, downloads,
\* creates files or delegates: one that ends because its arguments are invalid
\* has touched no workbook, no temp file and no network peer.  (That cleanup
\* comes before the end of the invocation is the statement of C1.)
C14_ValidationBeforeEffects ==
    \A i \in Inv :
        (Finished(i) /\ ArgumentsRejected(i)) =>
            \A e \in EffectEvents : ~InSeq(e, log[i])

WriteSucceeded(i) ==
    /\ Finished(i)
    /\ req[i].tool = "write_data_to_excel"
    /\ result[i].how = "return"
    /\ ~IsErrorString(result[i])

\* C15: write_data_to_excel returns its success message only when the data
\* was written and a separate temp copy of the workbook was uploaded; the
\* message is the write delegate's message followed by a download URL whose
\* file name is the name of the uploaded remote file; a failed upload gives no
\* success message.
C15_SuccessOnlyAfterUpload ==
    \A i \in Inv :
        /\ WriteSucceeded(i) =>
              /\ InSeq("write_data", log[i])
              /\ loc[i].uploaded \in created[i]
              /\ \E f \in remote :
                    /\ f.name = loc[i].uploaded
                    /\ f.data = TmpData(tmp, loc[i].uploaded)
                    /\ result[i].text =
                          loc[i].message \o <<"download link:">> \o DownloadUrl(f.name)
        /\ (Finished(i) /\ req[i].tool = "write_data_to_excel" /\ fault[i] = SshError)
              => ~WriteSucceeded(i)

\* Every step of a handler that can be taken is taken in the end.
SpecLive == Init /\ [][Next]_vars /\ WF_vars(Next)

\* C16: every network step carries a timeout, so an invocation ends even when
\* the remote peer never answers: whatever is received is answered in the end.
C16_EveryInvocationEnds ==
    \A i \in Inv : (pc[i] = "recv") ~> (pc[i] \in {"done", "idle"})

FormulaApplied(l) == InSeq("apply_formula_impl", l)

\* C18: apply_formula calls the write delegate only after the validation
\* delegate has returned without an error; when validation returns an error
\* dict or raises ValidationError, the handler returns an "Error:" string, has
\* not called the write delegate, and leaves the workbook as it was.
C18_FormulaValidatedBeforeApplied ==
    [][\A i \in Inv :
          (pc[i] = "recv" /\ req[i].tool = "apply_formula" /\ pc'[i] = "done") =>
              /\ FormulaApplied(log'[i]) =>
                    /\ log'[i][2] = "validate_formula_impl"
                    /\ log'[i][3] = "apply_formula_impl"
                    /\ cond'[i] # "invalid_formula"
              /\ (\/ cond'[i] = "invalid_formula"
                  \/ (fault'[i].k = "ValidationError" /\ ~FormulaApplied(log'[i]))) =>
                    /\ IsErrorString(result'[i])
                    /\ ~FormulaApplied(log'[i])
                    /\ UNCHANGED files]_vars

\* validation returned an error dict and the handler has answered
C18_Witness ==
    \E i \in Inv :
        /\ Finished(i)
        /\ req[i].tool = "apply_formula"
        /\ cond[i] = "invalid_formula"
        /\ IsErrorString(result[i])
        /\ log[i] = <<"get_excel_path", "validate_formula_impl">>

\* C19: the host that the documentation of write_data_to_excel names is the
\* host the handler uploads to and the host in the download link it returns.
C19_DocumentedHostIsUsed ==
    \A i \in Inv :
        WriteSucceeded(i) =>
            /\ InSeq(DocumentedHost, result[i].text)
            /\ \A f \in remote : f.name = loc[i].uploaded => f.host = DocumentedHost

\* the rows of a sheet of mr rows from start_row to min(end_row, mr), in order
ExpectedRows(start_row, end_row, mr) ==
    [k \in 1..(effective_end_row(end_row, mr) - start_row + 1) |-> start_row + k - 1]

\* C17: a caller that follows next_batch_info receives, for every sheet and
\* every valid start_row, end_row and batch_size, the rows from start_row to
\* min(end_row, max row), each once and in order, and its reading ends with a
\* response that has no next_batch_info.
C17_BatchesCoverRange ==
    /\ [](client.state # "off" =>
             \A k \in 1..Len(client.received) :
                client.received[k] = client.asked.start_row + k - 1)
    /\ [](client.state = "done" =>
             /\ client.received =
                   ExpectedRows(client.asked.start_row, client.asked.end_row, max_row)
             /\ client.response.next_batch_info = None)
    /\ <>(client.state = "done")

\* a reading of rows 2 to 4 of a longer sheet that took two calls
C17_Witness ==
    /\ client.state = "done"
    /\ client.calls = 2
    /\ client.batch_size = 2
    /\ max_row = 4
    /\ client.asked.end_row = <<4>>
    /\ client.received = <<2, 3, 4>>

CeilDiv(a, b) == (a + b - 1) \div b

\* C20: remaining_batches in next_batch_info is the number of batches still to
\* read, ceil((end_row - current_end_row) / batch_size), also when the rows
\* left are an exact multiple of batch_size.
C20_RemainingBatchesIsCeiling ==
    (client.state = "got" /\ client.response.next_batch_info # None) =>
        LET next == client.response.next_batch_info[1]
        IN  next.remaining_batches =
               CeilDiv(next.end_row - client.response.current_batch.end_row,
                       client.batch_size)

\* C21: in every successful read_excel_data_in_batches response the progress
\* counters are consistent and non-negative: rows_count = read_rows = number
\* of rows in data, read_rows + remaining_rows = total_rows, and
\* rows_count <= batch_size, whatever end_row is.
C21_ProgressCountersConsistent ==
    client.state = "got" =>
        LET b == client.response.current_batch
            t == client.response.total_progress
        IN  /\ b.rows_count = Len(client.response.data)
            /\ b.rows_count = t.read_rows
            /\ t.read_rows + t.remaining_rows = t.total_rows
            /\ b.rows_count <= client.batch_size
            /\ b.rows_count >= 0 /\ t.read_rows >= 0
            /\ t.remaining_rows >= 0 /\ t.total_rows >= 0

Answered(tool) == client.state = "got" /\ client.tool = tool

\* C22: read_data_from_excel returns at most min(max_cells, max_rows * 10)
\* cells for max_cells >= 1 and max_rows >= 1, its result says truncated
\* exactly when cells of the range were dropped, and a non-positive max_rows
\* or max_cells is rejected.
C22_CellLimitAndTruncatedFlag ==
    Answered("read_data_from_excel") =>
        LET r == client.response
        IN  IF client.max_rows <= 0 \/ client.max_cells <= 0
            THEN r.kind = "rejected"
            ELSE /\ Len(r.cells) <= Min(client.max_cells, client.max_rows * 10)
                 /\ (r.truncated = <<TRUE>>) <=> (Len(r.cells) < client.n)

Truncated(r) == r.truncated = <<TRUE>>

\* C23: when a read handler truncates its result, the total it reports is the
\* count before the cut: total_cells is the number of cells of the requested
\* range, total_sheets the number of sheets of the workbook.
C23_TotalsCountBeforeCut ==
    /\ (Answered("read_data_from_excel") /\ Truncated(client.response)) =>
          client.response.total_cells \in {None, <<client.n>>}
    /\ (Answered("get_workbook_metadata") /\ Truncated(client.response)) =>
          client.response.total_sheets = <<client.n>>

\* C24: get_excel_file_info suggests a batch size from the target sheet's
\* rows * columns (over 10000: 20, over 5000: 50, over 1000: 100, else 200)
\* and reports estimated_batches = ceil(rows / suggested_batch_size); for a
\* sheet that does not exist it answers without error: target_sheet_info
\* null, batch size 50, 0 batches.
C24_SuggestedBatches ==
    Answered("get_excel_file_info") =>
        LET r == client.response
            name == IF client.sheet_name = NoSheet THEN RemoteSheets[1]
                    ELSE client.sheet_name
            total_cells == client.rows * client.columns
            size == r.suggested_batch_size
        IN  IF InSeq(name, RemoteSheets)
            THEN /\ r.target_sheet_info # None
                 /\ total_cells > 10000 => size = 20
                 /\ (total_cells > 5000 /\ total_cells <= 10000) => size = 50
                 /\ (total_cells > 1000 /\ total_cells <= 5000) => size = 100
                 /\ total_cells <= 1000 => size = 200
                 /\ r.estimated_batches * size >= client.rows
                 /\ (r.estimated_batches - 1) * size < client.rows
            ELSE /\ r.kind = "info"
                 /\ r.target_sheet_info = None
                 /\ size = 50
                 /\ r.estimated_batches = 0

\* a sheet of exactly ten full batches, and a sheet that does not exist
C24_Witness ==
    /\ Answered("get_excel_file_info")
    /\ \/ /\ client.rows = 1000 /\ client.columns = 2
          /\ client.sheet_name = NoSheet
          /\ client.response.suggested_batch_size = 100
          /\ client.response.estimated_batches = 10
       \/ /\ client.sheet_name = "Missing"
          /\ client.response.target_sheet_info = None
          /\ client.response.estimated_batches = 0

ExtractInvocation(i) == req[i].tool = "extract_tables_from_document"

LibraryAvailable(t, avail) ==
    CASE t \in {"pptx", "ppt"} -> avail.PPTX_AVAILABLE
      [] t \in {"docx", "doc"} -> avail.DOCX_AVAILABLE
      [] t = "pdf" -> avail.PDFPLUMBER_AVAILABLE \/ avail.PYPDF2_AVAILABLE
      [] OTHER -> FALSE

\* C26: DocumentExtractor.extract_tables_from_document invokes exactly one
\* format extractor, chosen by file type (pptx/ppt: presentation, docx/doc:
\* word, pdf: PDF); for a type outside {pptx, ppt, docx, doc, pdf}, or a
\* supported type whose library is unavailable, it raises and invokes none,
\* so a download named with the fallback ".tmp" ends in a failure result.
C26_OneExtractorByType ==
    Answered("extract_and_save") =>
        LET r == client.response
            t == r.file_type
        IN  /\ LibraryAvailable(t, client.avail) =>
                 r.invoked =
                    << CASE t \in {"pptx", "ppt"} -> "extract_tables_from_pptx"
                         [] t \in {"docx", "doc"} -> "extract_tables_from_docx"
                         [] OTHER -> "extract_tables_from_pdf" >>
            /\ ~LibraryAvailable(t, client.avail) =>
                 /\ r.invoked = <<>>
                 /\ r.kind = "failure"
            /\ r.temp_file[Len(r.temp_file)] = ".tmp" => r.kind = "failure"

\* a download without a name and of an unknown content type, which failed,
\* and a presentation that went to the presentation extractor
C26_Witness ==
    /\ Answered("extract_and_save")
    /\ \/ /\ client.filename = <<>>
          /\ client.content_type = {"html"}
          /\ client.response.temp_file = <<"uuid8_", "document", ".tmp">>
          /\ client.response.kind = "failure"
       \/ /\ client.filename = <<"old", ".ppt">>
          /\ client.response.invoked = <<"extract_tables_from_pptx">>
          /\ client.response.kind = "tables"

\* C27: preview_document_tables returns at most max_tables table previews,
\* each with at most max_rows_per_table rows; total_tables_found is the number
\* of tables in the document and preview_tables_count is
\* min(max_tables, total_tables_found).
C27_PreviewWithinLimits ==
    (Answered("preview_document_tables") /\ client.response.kind = "preview") =>
        LET r == client.response
        IN  /\ Len(r.tables_preview) <= client.max_tables
            /\ \A k \in 1..Len(r.tables_preview) :
                  r.tables_preview[k].preview_rows <= client.max_rows_per_table
            /\ r.total_tables_found = client.n
            /\ r.preview_tables_count = Min(client.max_tables, r.total_tables_found)

\* C28: no tool handler writes EXCEL_FILES_PATH: it keeps the value it has
\* when the server starts serving (None in stdio mode), so get_excel_path
\* gives a file name the same path in every invocation of one server
\* process, whatever ran before or runs at the same time.
C28_BaseDirectoryNeverWritten ==
    [][/\ EXCEL_FILES_PATH' = EXCEL_FILES_PATH
       /\ \A i \in Inv :
             Resolved(i)' =>
                loc'[i].full_path =
                   IF isabs(req'[i].filepath) THEN req'[i].filepath
                   ELSE IF EXCEL_FILES_PATH = None THEN abspath(req'[i].filepath)
                   ELSE join(EXCEL_FILES_PATH, req'[i].filepath)
       /\ \A i, j \in Inv :
             (Resolved(i)' /\ Resolved(j)' /\ req'[i].filepath = req'[j].filepath)
                => loc'[i].full_path = loc'[j].full_path]_vars

\* two invocations side by side that resolved the same file name, and an
\* invocation that resolved it after another had returned
C28_Witness ==
    \/ \E i, j \in Inv :
          /\ i # j
          /\ Resolved(i) /\ Resolved(j)
          /\ req[i].filepath = req[j].filepath
          /\ loc[i].full_path = loc[j].full_path
    \/ \E i \in Inv :
          /\ Resolved(i)
          /\ served = MaxServed
          /\ \A j \in Inv : j # i => pc[j] = "idle"

====
